---------------------------- MODULE Spec2Model ----------------------------
(***************************************************************************)
(* Anomaly-detection estimators of sklearn: the DAMEX estimator            *)
(* (sklearn/manifold/damex.py) and the Isolation Forest scoring            *)
(* (sklearn/ensemble/iforest.py).                                          *)
(*                                                                         *)
(* Real numbers are fixed-point integers: the real r is the integer        *)
(* r * Scale.  Counts (rows, features, n_threshold_extreme, Warn) are      *)
(* plain integers.  k_pow is held in units of 1/2 (1 is 0.5, 2 is 1.0).    *)
(* A matrix is a sequence of rows, a row a sequence of d reals.            *)
(* A Python dict is a function whose DOMAIN is its key set.                *)
(***************************************************************************)
EXTENDS Integers, Sequences, FiniteSets, TLC

\* ------------------------------------------------------------------ bounds
Scale == 1000          \* fixed-point resolution of the reals
NFeatures == 2         \* d, the number of features of every matrix
RefitRows == 3         \* most rows of a training set when refitting
TransformRows == 2     \* most rows of a training set before transform
ScoringRows == 1       \* most rows of a training set before scoring
MaxTestRows == 1       \* most rows of a matrix passed to transform/predict
FrameRows == 2         \* training rows before the calls on a fitted estimator
LofRows == 3           \* fewest training samples of a LOF
LofNeighbors == 2      \* largest n_neighbors of a LOF
MaxCount == 5          \* most training rows of one kind given to damex_train
MaxFits == 2           \* most fit calls on one estimator
FracBits == 10         \* binary digits of an exponent's fraction
MaxEstimators == 2     \* most trees of a forest
MaxSamplesInt == 3     \* largest integer max_samples
NSamples == 2          \* rows of the matrix passed to IsolationForest.predict
MaxFeatures == 2       \* most features of a matrix given to the forest

\* ------------------------------------------------------- real arithmetic
Real(n) == n * Scale
Mul(a, b) == (a * b) \div Scale
Div(a, b) == (a * Scale) \div b
Abs(a) == IF a < 0 THEN 0 - a ELSE a

RECURSIVE SqrtSearch(_, _, _)
SqrtSearch(v, lo, hi) ==
    IF lo >= hi THEN lo
    ELSE LET mid == (lo + hi + 1) \div 2
         IN  IF mid * mid <= v THEN SqrtSearch(v, mid, hi)
             ELSE SqrtSearch(v, lo, mid - 1)

\* floor(sqrt(v)) for an integer v >= 0
ISqrt(v) == SqrtSearch(v, 0, 46340)

RECURSIVE IntPow(_, _)
IntPow(n, h) == IF h = 0 THEN 1 ELSE n * IntPow(n, h - 1)

\* np.power(n, k_pow) for an integer n >= 1 and k_pow = halves / 2
Power(n, halves) == ISqrt(IntPow(n, halves) * Scale * Scale)

\* An optional integer (None or an int): <<>> is None, <<n>> is n.
None == << >>
Some(n) == << n >>
IsNone(o) == o = << >>
Val(o) == o[1]

\* ------------------------------------------------------------ damex.py
Shape0(X) == Len(X)
Col(X, i) == [r \in 1..Len(X) |-> X[r][i]]

\* order: np.sort(X, axis=0), every column sorted on its own
order(X) ==
    LET sorted(i) == SortSeq(Col(X, i), LAMBDA a, b : a < b)
    IN  [r \in 1..Len(X) |-> [i \in 1..NFeatures |-> sorted(i)[r]]]

\* np.searchsorted(a, v), side='left': binary search on the half-open
\* range [lo, hi) of 0-based positions; a[mid] is a[mid + 1] here.
RECURSIVE BinSearchLeft(_, _, _, _)
BinSearchLeft(a, v, lo, hi) ==
    IF lo >= hi THEN lo
    ELSE LET mid == (lo + hi) \div 2
         IN  IF a[mid + 1] < v THEN BinSearchLeft(a, v, mid + 1, hi)
             ELSE BinSearchLeft(a, v, lo, mid)

\* a wrong searchsorted: side='right'
RECURSIVE BinSearchRight(_, _, _, _)
BinSearchRight(a, v, lo, hi) ==
    IF lo >= hi THEN lo
    ELSE LET mid == (lo + hi) \div 2
         IN  IF a[mid + 1] <= v THEN BinSearchRight(a, v, mid + 1, hi)
             ELSE BinSearchRight(a, v, lo, mid)
searchsortedRight(a, v) == BinSearchRight(a, v, 0, Len(a))

searchsorted(a, v) == BinSearchLeft(a, v, 0, Len(a))
\* a wrong Rank: divides by n_R, not n_R + 1
RankNoPlusOne(R, i, v) == Div(Real(searchsorted(Col(R, i), v)), Real(Len(R)))

\* the rank a[:, i] of transform_: searchsorted / float(n_R + 1)
Rank(R, i, v) == Div(Real(searchsorted(Col(R, i), v)), Real(Len(R) + 1))

\* the float inf that numpy's division by zero yields
Inf == 2147483647

\* a wrong Pareto: 1. / (1 + a)
ParetoPlus(a) == Div(Real(1), Real(1) + a)

\* 1. / (1 - a), on a numpy array: inf where a = 1
Pareto(a) == IF a = Real(1) THEN Inf ELSE Div(Real(1), Real(1) - a)

transform_(R, x) ==
    [r \in 1..Len(x) |-> [i \in 1..NFeatures |-> Pareto(Rank(R, i, x[r][i]))]]

\* nombre: the face as a string of 0-1
RECURSIVE nombre(_, _)
nombre(alpha, d) ==
    IF alpha = << >> THEN ""
    ELSE (IF Head(alpha) THEN "1" ELSE "0") \o nombre(Tail(alpha), d)

RECURSIVE MaxAbs(_)
MaxAbs(x) ==
    IF Len(x) = 1 THEN Abs(x[1])
    ELSE LET m == MaxAbs(Tail(x))
         IN  IF Abs(x[1]) > m THEN Abs(x[1]) ELSE m

\* a wrong alpha: a coordinate equal to the bound is not marked large
AlphaStrict(x, epsilon, with_rectangles, threshold_extreme) ==
    IF with_rectangles
    THEN [i \in 1..Len(x) |-> x[i] > Mul(epsilon, threshold_extreme)]
    ELSE [i \in 1..Len(x) |-> x[i] > Mul(epsilon, MaxAbs(x))]

\* the boolean vector of large coordinates
Alpha(x, epsilon, with_rectangles, threshold_extreme) ==
    IF with_rectangles
    THEN [i \in 1..Len(x) |-> x[i] >= Mul(epsilon, threshold_extreme)]
    ELSE [i \in 1..Len(x) |-> x[i] >= Mul(epsilon, MaxAbs(x))]

RECURSIVE SumValues(_, _)
SumValues(mu, keys) ==
    IF keys = {} THEN 0
    ELSE LET f == CHOOSE f \in keys : TRUE
         IN  mu[f] + SumValues(mu, keys \ {f})

\* a wrong threshold_faces: the sum of the masses is not divided by len(mu)
threshold_facesNoMean(mu, t) ==
    IF DOMAIN mu = {}
    THEN [err |-> "ZeroDivisionError", mu |-> mu]
    ELSE LET threshold == SumValues(mu, DOMAIN mu)
             kept == {f \in DOMAIN mu : ~(mu[f] < Mul(t, threshold))}
         IN  [err |-> "none", mu |-> [f \in kept |-> mu[f]]]

\* a wrong threshold_faces: the comparison is turned round, the faces
\* above t * mean are the ones deleted
threshold_facesInverted(mu, t) ==
    IF DOMAIN mu = {}
    THEN [err |-> "ZeroDivisionError", mu |-> mu]
    ELSE LET threshold == SumValues(mu, DOMAIN mu) \div Cardinality(DOMAIN mu)
             kept == {f \in DOMAIN mu : ~(mu[f] > Mul(t, threshold))}
         IN  [err |-> "none", mu |-> [f \in kept |-> mu[f]]]

\* threshold_faces; raises ZeroDivisionError on an empty mu
threshold_faces(mu, t) ==
    IF DOMAIN mu = {}
    THEN [err |-> "ZeroDivisionError", mu |-> mu]
    ELSE LET threshold == SumValues(mu, DOMAIN mu) \div Cardinality(DOMAIN mu)
             kept == {f \in DOMAIN mu : ~(mu[f] < Mul(t, threshold))}
         IN  [err |-> "none", mu |-> [f \in kept |-> mu[f]]]

EmptyDict == [f \in {} |-> 0]

\* a wrong accumulation loop: a face seen again gets 1/k, not 1/k more
RECURSIVE TrainLoopOverwrite(_, _, _, _, _, _, _)
TrainLoopOverwrite(X, i, mu, epsilon, with_rectangles, threshold_extreme, k) ==
    IF i > Len(X) THEN mu
    ELSE LET x == X[i]
             num_face == nombre(Alpha(x, epsilon, with_rectangles, threshold_extreme), Len(x))
             mu1 == IF MaxAbs(x) > threshold_extreme
                    THEN [f \in DOMAIN mu \cup {num_face} |->
                            IF f = num_face THEN Div(Real(1), k) ELSE mu[f]]
                    ELSE mu
         IN  TrainLoopOverwrite(X, i + 1, mu1, epsilon, with_rectangles, threshold_extreme, k)

\* the accumulation loop of damex_train, rows i..n
RECURSIVE TrainLoop(_, _, _, _, _, _, _)
TrainLoop(X, i, mu, epsilon, with_rectangles, threshold_extreme, k) ==
    IF i > Len(X) THEN mu
    ELSE LET x == X[i]
             norm_x == MaxAbs(x)
             num_face == nombre(Alpha(x, epsilon, with_rectangles,
                                      threshold_extreme), Len(x))
             mu1 == IF norm_x > threshold_extreme
                    THEN IF num_face \in DOMAIN mu
                         THEN [mu EXCEPT ![num_face] = @ + Div(Real(1), k)]
                         ELSE [f \in DOMAIN mu \cup {num_face} |->
                                 IF f = num_face THEN Div(Real(1), k)
                                 ELSE mu[f]]
                    ELSE mu
         IN  TrainLoop(X, i + 1, mu1, epsilon, with_rectangles,
                       threshold_extreme, k)

\* damex_train: [err, mu, threshold_extreme]
damex_train(X, epsilon, k_pow, with_rectangles, n_threshold_extreme, pruning_faces_coef) ==
    IF IsNone(n_threshold_extreme)
    THEN [err |-> "TypeError", mu |-> EmptyDict, threshold_extreme |-> 0]
    ELSE LET k == Power(Val(n_threshold_extreme), k_pow)
             threshold_extreme == Div(Real(Val(n_threshold_extreme)), k)
             mu0 == TrainLoop(X, 1, EmptyDict, epsilon, with_rectangles,
                              threshold_extreme, k)
             p1 == threshold_faces(mu0, pruning_faces_coef)
             p2 == threshold_faces(p1.mu, pruning_faces_coef)
         IN  IF p1.err # "none"
             THEN [err |-> p1.err, mu |-> EmptyDict, threshold_extreme |-> 0]
             ELSE [err |-> p2.err, mu |-> p2.mu,
                   threshold_extreme |-> threshold_extreme]

\* a wrong ScoreSample: the norm-weighted branch forgets to divide by norm_x
ScoreSampleNoDivision(x, mu_train, epsilon, with_rectangles, threshold_extreme, with_norm) ==
    LET norm_x == MaxAbs(x)
        num_face == nombre(Alpha(x, epsilon, with_rectangles, threshold_extreme), Len(x))
        first == IF ~with_norm /\ norm_x < Real(1) THEN Real(1) ELSE 0
    IN  IF norm_x < threshold_extreme
        THEN [score |-> first, warn |-> 1]
        ELSE IF num_face \in DOMAIN mu_train
             THEN [score |-> mu_train[num_face], warn |-> 0]
             ELSE [score |-> 0, warn |-> 0]

\* a wrong ScoreSample: a sub-unit sample keeps its score 1 (an elif in
\* place of the second if)
ScoreSampleElif(x, mu_train, epsilon, with_rectangles, threshold_extreme, with_norm) ==
    LET norm_x == MaxAbs(x)
        num_face == nombre(Alpha(x, epsilon, with_rectangles, threshold_extreme), Len(x))
    IN  IF ~with_norm /\ norm_x < Real(1)
        THEN [score |-> Real(1), warn |-> 0]
        ELSE IF norm_x < threshold_extreme
             THEN [score |-> 0, warn |-> 1]
             ELSE IF num_face \in DOMAIN mu_train
                  THEN [score |-> IF with_norm THEN Div(mu_train[num_face], norm_x)
                                  ELSE mu_train[num_face],
                        warn |-> 0]
                  ELSE [score |-> 0, warn |-> 0]

\* one iteration of a scoring loop of damex_scoring: the sample's score
\* and whether it was counted as non-extreme
ScoreSample(x, mu_train, epsilon, with_rectangles, threshold_extreme, with_norm) ==
    LET norm_x == MaxAbs(x)
        num_face == nombre(Alpha(x, epsilon, with_rectangles, threshold_extreme), Len(x))
        first == IF ~with_norm /\ norm_x < Real(1) THEN Real(1) ELSE 0
    IN  IF norm_x < threshold_extreme
        THEN [score |-> first, warn |-> 1]
        ELSE IF num_face \in DOMAIN mu_train
             THEN [score |-> IF with_norm THEN Div(mu_train[num_face], norm_x)
                             ELSE mu_train[num_face],
                   warn |-> 0]
             ELSE [score |-> 0, warn |-> 0]

RECURSIVE SumWarn(_, _)
SumWarn(s, i) == IF i > Len(s) THEN 0 ELSE s[i].warn + SumWarn(s, i + 1)

\* damex_scoring: [err, ret, Warn], ret being 2 - scores
damex_scoring(X, mu_train, epsilon, k_pow, with_rectangles, n_threshold_extreme, with_norm) ==
    IF IsNone(n_threshold_extreme)
    THEN [err |-> "TypeError", ret |-> << >>, Warn |-> 0]
    ELSE LET k == Power(Val(n_threshold_extreme), k_pow)
             threshold_extreme == Div(Real(Val(n_threshold_extreme)), k)
             s == [i \in 1..Len(X) |->
                     ScoreSample(X[i], mu_train, epsilon, with_rectangles,
                                 threshold_extreme, with_norm)]
         IN  [err |-> "none",
              ret |-> [i \in 1..Len(X) |-> Real(2) - s[i].score],
              Warn |-> SumWarn(s, 1)]

\* ------------------------------------------------------------ iforest.py
\* np.log of the integers 1..8, in units of 1e-5
LnE5 == << 0, 69315, 109861, 138629, 160944, 179176, 194591, 207944 >>
Ln(n) == (LnE5[n \div Scale] * Scale) \div 100000

\* 0.5772156649
EulerGamma == (57722 * Scale) \div 100000

\* 2^(f / Scale) for 0 <= f < Scale, one binary digit of f at a time;
\* root is 2^(1/2), 2^(1/4), ... for the digit at hand
RECURSIVE Pow2Frac(_, _, _)
Pow2Frac(f, root, bits) ==
    IF bits = 0 THEN Scale
    ELSE IF 2 * f >= Scale
         THEN Mul(root, Pow2Frac(2 * f - Scale, ISqrt(root * Scale), bits - 1))
         ELSE Pow2Frac(2 * f, ISqrt(root * Scale), bits - 1)

\* np.power(2, e) for a real e of either sign
Pow2(e) ==
    LET ip == e \div Scale
        m  == Pow2Frac(e % Scale, ISqrt(2 * Scale * Scale), FracBits)
    IN  IF ip >= 0 THEN m * IntPow(2, ip) ELSE m \div IntPow(2, 0 - ip)

\* IsolationForest._cost
_cost(n) ==
    IF n <= Real(1) THEN Real(1)
    ELSE LET harmonic_number == Ln(n) + EulerGamma
         IN  2 * harmonic_number - Div(2 * (n - Real(1)), n)

\* a wrong score: the sign of the exponent is lost
ScoreOfPlus(depth, max_samples) == Pow2(Div(depth, _cost(max_samples)))

\* np.power(2, - depth[k] / self._cost(self.max_samples))
ScoreOf(depth, max_samples) == Pow2(0 - Div(depth, _cost(max_samples)))

RECURSIVE SumAt(_, _, _)
SumAt(rows, k, t) == IF t > Len(rows) THEN 0 ELSE rows[t][k] + SumAt(rows, k, t + 1)

\* np.mean(results, axis=0)
MeanAxis0(rows) == [k \in 1..Len(rows[1]) |-> SumAt(rows, k, 1) \div Len(rows)]

\* the Reduce part of predict, on the per-tree results in hand
Reduce(results, max_samples) ==
    LET depth == MeanAxis0(results)
    IN  [k \in 1..Len(depth) |-> ScoreOf(depth[k], max_samples)]

\* a slot of the parallel loop whose task has not returned
Pending == << >>

\* the results that are in, in the order of the estimators
RECURSIVE Collected(_)
Collected(results) ==
    IF results = << >> THEN << >>
    ELSE IF Head(results) = Pending THEN Collected(Tail(results))
         ELSE << Head(results) >> \o Collected(Tail(results))

\* a wrong join: the reduction starts once any task has returned
AnyReturned(results) == \E t \in 1..Len(results) : results[t] # Pending

\* the parallel loop returns once every task has returned
AllReturned(results) == \A t \in 1..Len(results) : results[t] # Pending

\* check_array(X, dtype=DTYPE, accept_sparse="csr"): the matrix must be
\* 2-dimensional and have a row; it is not told the fitted feature count
check_array(X) ==
    IF X.ndim # 2 \/ X.n_samples < 1 THEN "InvalidInputError" ELSE "none"

\* the per-sample depths a tree can return: leaf depth plus the correction
\* for the samples left in the leaf, never negative
DepthVals == {0, (5 * Scale) \div 2}
DepthVecs == [1..NSamples -> DepthVals]

\* tree.tree_.apply_depth(X): the outcomes.  With the fitted number of
\* features it is the tree's depth of every sample.  With more features
\* the tree reads the columns it was fitted on.  With fewer it reads past
\* the row: any depths, or a crash.
apply_depth(tree, X, n_features_) ==
    IF X.n_features >= n_features_ THEN {[err |-> "none", depths |-> tree]}
    ELSE {[err |-> "none", depths |-> v] : v \in DepthVecs}
           \cup {[err |-> "crash", depths |-> << >>]}

\* no forest constructed
NoForest == << >>
NoPredict == [pc |-> "idle", X |-> << >>, results |-> << >>, scores |-> << >>, err |-> "none"]

\* ------------------------------------------------------ the Damex object
\* The instance is the function from its attribute names to their values
\* (Python's instance dictionary): an attribute that was never assigned is
\* not in its DOMAIN.
SetAttr(obj, name, v) ==
    [a \in DOMAIN obj \cup {name} |-> IF a = name THEN v ELSE obj[a]]
HasAttr(obj, name) == name \in DOMAIN obj

\* Damex.__init__
Construct(args) ==
    [epsilon |-> args.epsilon, k_pow |-> args.k_pow,
     with_norm |-> args.with_norm, with_transform |-> args.with_transform,
     with_rectangles |-> args.with_rectangles,
     n_threshold_extreme |-> args.n_threshold_extreme,
     pruning_faces_coef |-> args.pruning_faces_coef]

\* Damex.transform
transform(obj, X) == transform_(obj.R, X)

\* Damex.fit: [self, err]; an exception leaves the assignments made
\* before it in place.
fit(obj, X) ==
    LET s1 == IF obj.with_transform THEN SetAttr(obj, "R", order(X)) ELSE obj
        s2 == IF obj.with_transform /\ IsNone(s1.n_threshold_extreme)
              THEN [s1 EXCEPT !.n_threshold_extreme = Some(Shape0(X))]
              ELSE s1
        Xt == IF obj.with_transform THEN transform(s2, X) ELSE X
        t  == damex_train(Xt, s2.epsilon, s2.k_pow, s2.with_rectangles, s2.n_threshold_extreme, s2.pruning_faces_coef)
    IN  IF t.err # "none"
        THEN [self |-> s2, err |-> t.err]
        ELSE [self |-> SetAttr(SetAttr(s2, "mu", t.mu), "threshold_extreme", t.threshold_extreme),
              err |-> "none"]

\* a wrong predict: it takes the order statistics of the matrix it is given
predictReorders(obj, X) ==
    IF (obj.with_transform /\ ~HasAttr(obj, "R")) \/ ~HasAttr(obj, "mu")
    THEN [self |-> obj, err |-> "AttributeError", ret |-> << >>, Warn |-> 0]
    ELSE LET s1 == IF obj.with_transform THEN SetAttr(obj, "R", order(X)) ELSE obj
             Xt == IF obj.with_transform THEN transform(s1, X) ELSE X
             r  == damex_scoring(Xt, obj.mu, obj.epsilon, obj.k_pow, obj.with_rectangles, obj.n_threshold_extreme, obj.with_norm)
         IN  [self |-> s1, err |-> r.err, ret |-> r.ret, Warn |-> r.Warn]

\* Damex.predict and Damex.decision_function (the same body):
\* [self, err, ret, Warn], self being the instance after the call (the
\* body assigns no attribute); reading an attribute fit never assigned
\* raises AttributeError.
predict(obj, X) ==
    IF (obj.with_transform /\ ~HasAttr(obj, "R")) \/ ~HasAttr(obj, "mu")
    THEN [self |-> obj, err |-> "AttributeError", ret |-> << >>, Warn |-> 0]
    ELSE LET Xt == IF obj.with_transform THEN transform(obj, X) ELSE X
             r  == damex_scoring(Xt, obj.mu, obj.epsilon, obj.k_pow, obj.with_rectangles, obj.n_threshold_extreme, obj.with_norm)
         IN  [self |-> obj, err |-> r.err, ret |-> r.ret, Warn |-> r.Warn]

decision_function(obj, X) == predict(obj, X)

\* --------------------------------------------------------------- lof.py
\* Samples have one feature: a matrix is the sequence of its values, and
\* the matrix argument that was not given (X=None) is None.

\* LOF.__init__
ConstructLOF(n_neighbors) == [n_neighbors |-> n_neighbors]

\* UnsupervisedMixin.fit: stores the training samples
LOF_fit(obj, X) == SetAttr(obj, "_fit_X", X)

\* pairwise_distances(p_0, self._fit_X, 'minkowski', p=2) on one feature
pairwise_distances(p_0, fit_X) ==
    [j \in 1..Len(p_0) |-> [i \in 1..Len(fit_X) |-> Abs(p_0[j] - fit_X[i])]]

\* the n nearest of the candidates cands to a sample at distances d,
\* nearest first
RECURSIVE Nearest(_, _, _)
Nearest(cands, d, n) ==
    IF n = 0 \/ cands = {} THEN << >>
    ELSE LET i == CHOOSE c \in cands :
                    \A e \in cands : d[c] < d[e] \/ (d[c] = d[e] /\ c <= e)
         IN  << i >> \o Nearest(cands \ {i}, d, n - 1)

\* KNeighborsMixin.kneighbors(X, n_neighbors): [err, distances, indices];
\* for X=None the queries are the training samples, none its own neighbour
kneighbors(obj, X, n_neighbors) ==
    LET fit_X == obj._fit_X
        q     == IF IsNone(X) THEN fit_X ELSE X
        dist  == pairwise_distances(q, fit_X)
        cands(j) == IF IsNone(X) THEN (1..Len(fit_X)) \ {j} ELSE 1..Len(fit_X)
        ind   == [j \in 1..Len(q) |-> Nearest(cands(j), dist[j], n_neighbors)]
    IN  IF n_neighbors > Len(fit_X) - (IF IsNone(X) THEN 1 ELSE 0)
        THEN [err |-> "ValueError", distances |-> << >>, indices |-> << >>]
        ELSE [err |-> "none",
              distances |-> [j \in 1..Len(q) |-> [c \in 1..n_neighbors |-> dist[j][ind[j][c]]]],
              indices |-> ind]

\* a local variable: v is computed once and Op is given its value
With(v, Op(_)) == CHOOSE r \in { Op(x) : x \in { y \in {v} : y = y } } : TRUE

\* LOFMixin.k_distance: [err, k_dist, neighbors_indices]
k_distance(obj, X) ==
    With(kneighbors(obj, X, obj.n_neighbors), LAMBDA kn :
        IF kn.err # "none"
        THEN [err |-> kn.err, k_dist |-> << >>, neighbors_indices |-> << >>]
        ELSE [err |-> "none",
              k_dist |-> [j \in 1..Len(kn.distances) |-> kn.distances[j][obj.n_neighbors]],
              neighbors_indices |-> kn.indices])

RECURSIVE SumSeq(_)
SumSeq(q) == IF q = << >> THEN 0 ELSE Head(q) + SumSeq(Tail(q))

\* LOFMixin.local_reachability_density
local_reachability_density(obj, p) ==
    With(IF IsNone(p) THEN obj.neighbors_indices_fit_X_ ELSE k_distance(obj, p).neighbors_indices,
         LAMBDA neighbors_indices :
    LET p_0 == IF IsNone(p) THEN obj._fit_X ELSE p
        dist == pairwise_distances(p_0, obj._fit_X)
        reach_dist_array ==
            [j \in 1..Len(p_0) |-> [cpt \in 1..obj.n_neighbors |->
                LET i == neighbors_indices[j][cpt]
                    kd == obj.k_distance_value_fit_X_[i]
                IN  IF kd >= dist[j][i] THEN kd ELSE dist[j][i]]]
    IN  [j \in 1..Len(p_0) |-> Div(Real(obj.n_neighbors), SumSeq(reach_dist_array[j]))])

\* the rest of local_outlier_factor once self.neighbors_indices_p_ is
\* assigned: s2 is the instance then
lrd_ratios(s2, p) ==
    With(local_reachability_density(s2, p), LAMBDA p_lrd :
    With(IF IsNone(p) THEN p_lrd ELSE local_reachability_density(s2, None), LAMBDA lrd :
    LET p_0 == IF IsNone(p) THEN s2._fit_X ELSE p
        lrd_ratios_array ==
            [j \in 1..Len(p_0) |-> [cpt \in 1..s2.n_neighbors |->
                Div(lrd[s2.neighbors_indices_p_[j][cpt]], p_lrd[j])]]
    IN  [self |-> s2, err |-> "none",
         ret |-> [j \in 1..Len(p_0) |-> SumSeq(lrd_ratios_array[j]) \div s2.n_neighbors]]))

\* LOFMixin.local_outlier_factor: [self, err, ret]
local_outlier_factor(obj, p) ==
    With(k_distance(obj, None), LAMBDA kf :
    IF kf.err # "none" THEN [self |-> obj, err |-> kf.err, ret |-> << >>]
    ELSE
    With(SetAttr(SetAttr(obj, "k_distance_value_fit_X_", kf.k_dist), "neighbors_indices_fit_X_", kf.neighbors_indices),
         LAMBDA s1 :
    With(IF IsNone(p) THEN kf ELSE k_distance(s1, p), LAMBDA kp :
    IF kp.err # "none" THEN [self |-> s1, err |-> kp.err, ret |-> << >>]
    ELSE With(SetAttr(s1, "neighbors_indices_p_", kp.neighbors_indices), LAMBDA s2 :
              lrd_ratios(s2, p)))))

\* LOF.predict(X, n_neighbors): [self, err, ret]
LOF_predict(obj, X, n_neighbors) ==
    LET s == IF ~IsNone(n_neighbors)
             THEN [obj EXCEPT !.n_neighbors = Val(n_neighbors)]
             ELSE obj
    IN  local_outlier_factor(s, X)

\* LOF.decision_function(X, n_neighbors): -self.predict(X, n_neighbors)
LOF_decision_function(obj, X, n_neighbors) ==
    LET r == LOF_predict(obj, X, n_neighbors)
    IN  [self |-> r.self, err |-> r.err, ret |-> [j \in 1..Len(r.ret) |-> 0 - r.ret[j]]]

\* ----------------------------------------------------------------- state
VARIABLES
    self,    \* the Damex instance
    ctor,    \* the arguments its constructor was called with
    call,    \* the last call on it: op, X, err, ret, Warn
    fits,    \* the outcome (err) of every fit call so far, in order
    input,   \* the matrices the caller holds: train, test
    returned, \* since the last fit: X -> the scores first returned for X, and by which method
    forest,  \* the IsolationForest instance
    pcall,   \* the IsolationForest.predict in progress: pc, X, results, scores, err
    lof,     \* the LOF instance
    lofctor, \* the n_neighbors its constructor was called with
    lofcall, \* the last call on it: op, X, n_neighbors, err, ret
    train    \* the damex_train in progress: pc, its arguments, its locals, err

damex == << self, ctor, call, fits, input, returned >>
lofvars == << lof, lofctor, lofcall >>
vars == << self, ctor, call, fits, input, returned, forest, pcall, lof, lofctor, lofcall, train >>

nfits == Len(fits)

NoInput == [train |-> << >>, test |-> << >>]

NoLofCall == [op |-> "init", X |-> None, n_neighbors |-> None, err |-> "none", ret |-> << >>]

\* no damex_train in progress
NoTrain == [pc |-> "idle"]

NoCall == [op |-> "init", X |-> << >>, err |-> "none", ret |-> << >>, Warn |-> 0]

\* matrices of 1..maxRows rows over the values of vals
Rows(vals) == [1..NFeatures -> vals]
RECURSIVE MatricesOfLen(_, _)
MatricesOfLen(vals, n) ==
    IF n = 0 THEN { << >> }
    ELSE { Append(m, r) : m \in MatricesOfLen(vals, n - 1), r \in Rows(vals) }
Matrices(vals, maxRows) == UNION { MatricesOfLen(vals, n) : n \in 1..maxRows }

Fit(X) ==
    /\ nfits < MaxFits
    /\ LET r == fit(self, X)
       IN  /\ self' = r.self
           /\ call' = [op |-> "fit", X |-> X, err |-> r.err, ret |-> << >>, Warn |-> 0]
           /\ fits' = Append(fits, r.err)
    /\ returned' = EmptyDict
    /\ UNCHANGED << ctor, input, forest, pcall, lofvars, train >>

\* the record of the scores returned, after method op returned r for X
Record(op, X, r) ==
    IF r.err # "none" \/ X \in DOMAIN returned THEN returned
    ELSE [Y \in DOMAIN returned \cup {X} |->
            IF Y = X THEN [ret |-> r.ret, by |-> op] ELSE returned[Y]]

Predict(X) ==
    /\ call.op # "init"
    /\ \E r \in {predict(self, X)} :
           /\ self' = r.self
           /\ call' = [op |-> "predict", X |-> X, err |-> r.err, ret |-> r.ret, Warn |-> r.Warn]
           /\ returned' = Record("predict", X, r)
    /\ UNCHANGED << ctor, fits, input, forest, pcall, lofvars, train >>

DecisionFunction(X) ==
    /\ call.op # "init"
    /\ \E r \in {decision_function(self, X)} :
           /\ self' = r.self
           /\ call' = [op |-> "decision_function", X |-> X, err |-> r.err, ret |-> r.ret, Warn |-> r.Warn]
           /\ returned' = Record("decision_function", X, r)
    /\ UNCHANGED << ctor, fits, input, forest, pcall, lofvars, train >>

Transform(X) ==
    /\ HasAttr(self, "R")
    /\ call' = [op |-> "transform", X |-> X, err |-> "none", ret |-> transform(self, X), Warn |-> 0]
    /\ UNCHANGED << self, ctor, fits, input, returned, forest, pcall, lofvars, train >>

\* -------------------------------------------- refitting (several fits)
RefitArgs ==
    [epsilon : {Scale \div 100}, k_pow : {1, 2}, with_norm : {TRUE},
     with_transform : BOOLEAN, with_rectangles : {FALSE},
     n_threshold_extreme : {None, Some(2)},
     pruning_faces_coef : {Scale \div 10}]

RefitVals == {Real(1), Real(2)}

InitRefit ==
    /\ ctor \in RefitArgs
    /\ self = Construct(ctor)
    /\ call = NoCall
    /\ fits = << >>
    /\ input = NoInput
    /\ returned = EmptyDict
    /\ forest = NoForest
    /\ pcall = NoPredict
    /\ lof = << >>
    /\ lofctor = 0
    /\ lofcall = NoLofCall
    /\ train = NoTrain

NextRefit == \E X \in Matrices(RefitVals, RefitRows) : Fit(X)

SpecRefit == InitRefit /\ [][NextRefit]_vars

\* what fit learns: the attributes R, mu and threshold_extreme that exist
Learned(obj) ==
    [a \in DOMAIN obj \cap {"R", "mu", "threshold_extreme"} |-> obj[a]]

\* C1: for an estimator constructed with n_threshold_extreme=None and
\* with_transform=True, after any sequence of fit calls the learned state
\* (R, mu, threshold_extreme) is the one a freshly constructed estimator
\* with the same arguments has after one fit on the last training set.
\* Stated of sequences in which every fit returned normally.
C1_RefitEqualsFreshFit ==
    (/\ call.op = "fit"
     /\ \A i \in 1..Len(fits) : fits[i] = "none"
     /\ IsNone(ctor.n_threshold_extreme)
     /\ ctor.with_transform)
    => Learned(self) = Learned(fit(Construct(ctor), call.X).self)

\* C5: constructed with n_threshold_extreme=None, fit takes the number of
\* training rows n as n_threshold_extreme, so threshold_extreme = n / k
\* with k = n^k_pow, with_transform being True or False.  Stated of the
\* first fit, and of a fit that did not stop on an empty mu.
C5_NoneUsesRowCount ==
    (/\ call.op = "fit"
     /\ nfits = 1
     /\ IsNone(ctor.n_threshold_extreme)
     /\ call.err # "ZeroDivisionError")
    => /\ call.err = "none"
       /\ self.n_threshold_extreme = Some(Shape0(call.X))
       /\ self.threshold_extreme
            = Div(Real(Shape0(call.X)), Power(Shape0(call.X), self.k_pow))

\* ------------------------------------- the marginal transform after a fit
TransformArgs ==
    [epsilon : {Scale \div 100}, k_pow : {1}, with_norm : {TRUE},
     with_transform : {TRUE}, with_rectangles : {FALSE},
     n_threshold_extreme : {None}, pruning_faces_coef : {Scale \div 10}]

TransformTrainVals == {Real(1), Real(3)}
TransformTestVals == {Real(1), Real(2)}

InitTransform ==
    /\ ctor \in TransformArgs
    /\ self = Construct(ctor)
    /\ call = NoCall
    /\ fits = << >>
    /\ input \in [train : Matrices(TransformTrainVals, TransformRows),
                  test : Matrices(TransformTestVals, MaxTestRows)]
    /\ returned = EmptyDict
    /\ forest = NoForest
    /\ pcall = NoPredict
    /\ lof = << >>
    /\ lofctor = 0
    /\ lofcall = NoLofCall
    /\ train = NoTrain

FitOnce(X) == nfits = 0 /\ Fit(X)

NextTransform ==
    \/ FitOnce(input.train)
    \/ Transform(input.test)

SpecTransform == InitTransform /\ [][NextTransform]_vars

CountLE(col, v) == Cardinality({j \in 1..Len(col) : col[j] <= v})
CountLT(col, v) == Cardinality({j \in 1..Len(col) : col[j] < v})
Cells(X) == (1..Len(X)) \X (1..NFeatures)

\* C6 as stated: transform maps x_i to 1/(1 - rank) with rank = (number of
\* stored training values of feature i that are <= x_i) / (n_train + 1),
\* ties included.
C6_RankCountsLessOrEqual ==
    call.op = "transform" =>
      \A c \in Cells(call.X) :
        call.ret[c[1]][c[2]] =
          Pareto(Div(Real(CountLE(Col(self.R, c[2]), call.X[c[1]][c[2]])),
                     Real(Len(self.R) + 1)))

\* C6 amended: the rank counts the stored training values of feature i
\* that are strictly less than x_i.
C6_RankCountsStrictlyLess ==
    call.op = "transform" =>
      \A c \in Cells(call.X) :
        call.ret[c[1]][c[2]] =
          Pareto(Div(Real(CountLT(Col(self.R, c[2]), call.X[c[1]][c[2]])),
                     Real(Len(self.R) + 1)))

\* a transform of a value equal to several stored training values
C6_Witness ==
    /\ call.op = "transform"
    /\ \E c \in Cells(call.X) :
         CountLE(Col(self.R, c[2]), call.X[c[1]][c[2]])
           >= CountLT(Col(self.R, c[2]), call.X[c[1]][c[2]]) + 2

\* C7 as stated: for every input value the rank is never exactly 0 and
\* never exactly 1, so the transformed value is finite and > 1.
C7_RankStrictlyInside ==
    call.op = "transform" =>
      \A c \in Cells(call.X) :
        LET a == Rank(self.R, c[2], call.X[c[1]][c[2]])
        IN  /\ 0 < a /\ a < Real(1)
            /\ call.ret[c[1]][c[2]] # Inf
            /\ call.ret[c[1]][c[2]] > Real(1)

\* C7 amended: 0 <= rank < 1, the rank being 0 exactly for the values that
\* are <= the training minimum of the feature; the transformed value is
\* finite and >= 1.
C7_RankBelowOne ==
    call.op = "transform" =>
      \A c \in Cells(call.X) :
        LET a == Rank(self.R, c[2], call.X[c[1]][c[2]])
        IN  /\ 0 <= a /\ a < Real(1)
            /\ (a = 0) <=> (call.X[c[1]][c[2]] <= self.R[1][c[2]])
            /\ call.ret[c[1]][c[2]] # Inf
            /\ call.ret[c[1]][c[2]] >= Real(1)

\* a transform of a row with a value below the training minimum and a
\* value above the training maximum
C7_Witness ==
    /\ call.op = "transform"
    /\ \E i \in 1..NFeatures : call.X[1][i] < self.R[1][i]
    /\ \E i \in 1..NFeatures : call.X[1][i] > self.R[Len(self.R)][i]

\* the row whose every coordinate is v
ConstRow(v) == [i \in 1..NFeatures |-> v]

\* C8: for the stored R, transform is non-decreasing in each coordinate:
\* a <= b implies transform(a)_i <= transform(b)_i, for the values of the
\* call and every other value.
C8_TransformMonotone ==
    call.op = "transform" =>
      /\ \A c \in Cells(call.X) : \A b \in TransformTestVals :
           LET tb == transform(self, << ConstRow(b) >>)[1][c[2]]
           IN  /\ call.X[c[1]][c[2]] <= b => call.ret[c[1]][c[2]] <= tb
               /\ b <= call.X[c[1]][c[2]] => tb <= call.ret[c[1]][c[2]]
      /\ \A c \in Cells(call.X) : \A r \in 1..Len(call.X) :
           call.X[c[1]][c[2]] <= call.X[r][c[2]]
             => call.ret[c[1]][c[2]] <= call.ret[r][c[2]]

\* a transform of a value that a larger value strictly exceeds after the
\* transform
C8_Witness ==
    /\ call.op = "transform"
    /\ \E i \in 1..NFeatures : \E b \in TransformTestVals :
         /\ call.X[1][i] < b
         /\ call.ret[1][i] < transform(self, << ConstRow(b) >>)[1][i]

\* --------------------------------------------------- scoring after a fit
ScoringArgs ==
    [epsilon : {(4 * Scale) \div 5}, k_pow : {1, 4}, with_norm : BOOLEAN,
     with_transform : BOOLEAN, with_rectangles : {FALSE},
     n_threshold_extreme : {Some(2)}, pruning_faces_coef : {Scale \div 10}]

ScoringTrainVals == {(3 * Scale) \div 4, Real(2)}
ScoringTestVals == {(3 * Scale) \div 4, Real(1)}

InitScoring ==
    /\ ctor \in ScoringArgs
    /\ self = Construct(ctor)
    /\ call = NoCall
    /\ fits = << >>
    /\ input \in [train : Matrices(ScoringTrainVals, ScoringRows),
                  test : Matrices(ScoringTestVals, MaxTestRows)]
    /\ returned = EmptyDict
    /\ forest = NoForest
    /\ pcall = NoPredict
    /\ lof = << >>
    /\ lofctor = 0
    /\ lofcall = NoLofCall
    /\ train = NoTrain

NextScoring ==
    \/ FitOnce(input.train)
    \/ Predict(input.test)
    \/ DecisionFunction(input.test)

SpecScoring == InitScoring /\ [][NextScoring]_vars

\* the samples damex_scoring was given by the last predict
Scored == IF self.with_transform THEN transform(self, call.X) ELSE call.X
Face(x) == nombre(Alpha(x, self.epsilon, self.with_rectangles, self.threshold_extreme), Len(x))
IsScoringCall == call.op \in {"predict", "decision_function"}

\* C9: with_norm=True: every test sample gets 2 - s, with s = 0 if
\* norm < threshold_extreme, s = mu[face] / norm if norm >=
\* threshold_extreme and the face is a key of mu, s = 0 if the face is
\* absent; the warning counter ends as the number of samples with
\* norm < threshold_extreme; scoring on a fitted estimator raises nothing.
C9_NormWeightedScores ==
    (IsScoringCall /\ self.with_norm /\ HasAttr(self, "mu")) =>
      /\ call.err = "none"
      /\ Len(call.ret) = Len(call.X)
      /\ \A i \in 1..Len(call.X) :
           LET x == Scored[i]
               s == IF MaxAbs(x) < self.threshold_extreme THEN 0
                    ELSE IF Face(x) \in DOMAIN self.mu
                         THEN Div(self.mu[Face(x)], MaxAbs(x))
                         ELSE 0
           IN  call.ret[i] = Real(2) - s
      /\ call.Warn = Cardinality({i \in 1..Len(call.X) :
                                    MaxAbs(Scored[i]) < self.threshold_extreme})

\* a norm-weighted scoring of an extreme sample whose face is in mu and
\* whose norm is not 1
C9_Witness ==
    /\ IsScoringCall /\ self.with_norm /\ call.err = "none"
    /\ \E i \in 1..Len(call.X) :
         /\ MaxAbs(Scored[i]) >= self.threshold_extreme
         /\ MaxAbs(Scored[i]) # Real(1)
         /\ Face(Scored[i]) \in DOMAIN self.mu
         /\ call.ret[i] < Real(2)

\* a norm-weighted scoring of a non-extreme sample
C9_WitnessNonExtreme ==
    /\ IsScoringCall /\ self.with_norm /\ call.err = "none"
    /\ call.Warn > 0

\* C10: with_norm=False: a non-extreme sample gets score 1 if its norm is
\* < 1 and score 0 otherwise; an extreme sample gets mu[face] if its face
\* is in mu and 0 otherwise, also when its norm is < 1; the value
\* returned is 2 - score in every case.
C10_NoNormScores ==
    (IsScoringCall /\ ~self.with_norm /\ HasAttr(self, "mu")) =>
      /\ call.err = "none"
      /\ Len(call.ret) = Len(call.X)
      /\ \A i \in 1..Len(call.X) :
           LET x == Scored[i]
               s == IF MaxAbs(x) < self.threshold_extreme
                    THEN (IF MaxAbs(x) < Real(1) THEN Real(1) ELSE 0)
                    ELSE IF Face(x) \in DOMAIN self.mu THEN self.mu[Face(x)]
                         ELSE 0
           IN  call.ret[i] = Real(2) - s

\* a no-norm scoring of an extreme sample of norm < 1 whose face is in mu
C10_Witness ==
    /\ IsScoringCall /\ ~self.with_norm /\ call.err = "none"
    /\ \E i \in 1..Len(call.X) :
         /\ MaxAbs(Scored[i]) >= self.threshold_extreme
         /\ MaxAbs(Scored[i]) < Real(1)
         /\ Face(Scored[i]) \in DOMAIN self.mu

\* a no-norm scoring of a non-extreme sample of norm < 1
C10_WitnessSubUnit ==
    /\ IsScoringCall /\ ~self.with_norm /\ call.err = "none"
    /\ \E i \in 1..Len(call.X) :
         /\ MaxAbs(Scored[i]) < self.threshold_extreme
         /\ MaxAbs(Scored[i]) < Real(1)
         /\ call.ret[i] = Real(1)

\* ----------------------------------------- calls on a fitted estimator
FrameArgs ==
    [epsilon : {(4 * Scale) \div 5}, k_pow : {1}, with_norm : {TRUE},
     with_transform : BOOLEAN, with_rectangles : {FALSE},
     n_threshold_extreme : {None, Some(2)}, pruning_faces_coef : {Scale \div 10}]

\* the matrices the caller scores and transforms, in any order and repeatedly
FrameTests ==
    { << ConstRow(Real(2)) >>,
      << [i \in 1..NFeatures |-> IF i = 1 THEN Real(2) ELSE (3 * Scale) \div 4] >> }

InitFrame ==
    /\ ctor \in FrameArgs
    /\ self = Construct(ctor)
    /\ call = NoCall
    /\ fits = << >>
    /\ input \in [train : MatricesOfLen(ScoringTrainVals, FrameRows), test : {<< >>}]
    /\ returned = EmptyDict
    /\ forest = NoForest
    /\ pcall = NoPredict
    /\ lof = << >>
    /\ lofctor = 0
    /\ lofcall = NoLofCall
    /\ train = NoTrain

NextFrame ==
    \/ FitOnce(input.train)
    \/ \E X \in FrameTests : Predict(X)
    \/ \E X \in FrameTests : DecisionFunction(X)
    \/ \E X \in FrameTests : Transform(X)

SpecFrame == InitFrame /\ [][NextFrame]_vars

\* C11: on a fitted estimator a predict, decision_function or transform
\* call leaves every attribute of the instance (mu, R, threshold_extreme
\* and the hyperparameters, n_threshold_extreme included) as it was, and
\* a scoring call on an X scored before returns the scores returned then.
C11_CallsLeaveFittedStateAlone ==
    [][(HasAttr(self, "mu") /\ call'.op \in {"predict", "decision_function", "transform"})
       => /\ self' = self
          /\ (call'.op # "transform" /\ call'.X \in DOMAIN returned)
               => call'.ret = returned[call'.X].ret]_vars

\* decision_function has returned for an X that predict scored earlier,
\* another matrix having been scored as well
C11_Witness ==
    /\ HasAttr(self, "mu")
    /\ call.op = "decision_function"
    /\ call.err = "none"
    /\ call.X \in DOMAIN returned
    /\ returned[call.X].by = "predict"
    /\ Cardinality(DOMAIN returned) >= 2

\* ------------------------------------- samples at the extreme threshold
\* k_pow = 1.0 with n_threshold_extreme = 2 puts threshold_extreme at 1
ExtremeArgs ==
    [epsilon : {(4 * Scale) \div 5}, k_pow : {1, 2}, with_norm : BOOLEAN,
     with_transform : BOOLEAN, with_rectangles : {FALSE},
     n_threshold_extreme : {Some(2)}, pruning_faces_coef : {Scale \div 10}]

ExtremeTrainVals == {Real(1), Real(2)}
ExtremeTestVals == {(3 * Scale) \div 4, Real(1), Real(2)}

InitExtreme ==
    /\ ctor \in ExtremeArgs
    /\ self = Construct(ctor)
    /\ call = NoCall
    /\ fits = << >>
    /\ input \in [train : MatricesOfLen(ExtremeTrainVals, FrameRows),
                  test : Matrices(ExtremeTestVals, MaxTestRows)]
    /\ returned = EmptyDict
    /\ forest = NoForest
    /\ pcall = NoPredict
    /\ lof = << >>
    /\ lofctor = 0
    /\ lofcall = NoLofCall
    /\ train = NoTrain

NextExtreme ==
    \/ FitOnce(input.train)
    \/ Predict(input.test)
    \/ DecisionFunction(input.test)

SpecExtreme == InitExtreme /\ [][NextExtreme]_vars

\* C13: scoring treats a sample as extreme (looks its face up, does not
\* count it in Warn) exactly if the accumulation loop of damex_train, with
\* the threshold_extreme fit stored, would retain it (give its face mass),
\* a sample with norm = threshold_extreme included; and the threshold
\* damex_scoring recomputes is the threshold_extreme fit stored.
C13_SameExtremePredicate ==
    (IsScoringCall /\ call.err = "none" /\ HasAttr(self, "mu")) =>
      LET k == Power(Val(self.n_threshold_extreme), self.k_pow)
          retained(x) == TrainLoop(<< x >>, 1, EmptyDict, self.epsilon, self.with_rectangles, self.threshold_extreme, k) # EmptyDict
      IN  /\ Div(Real(Val(self.n_threshold_extreme)), k) = self.threshold_extreme
          /\ call.Warn = Cardinality({i \in 1..Len(Scored) : ~retained(Scored[i])})

\* ------------------------------------------- damex_train, step by step
\* damex_train is called: X and the arguments are in train, pc = "called"
TrainCall(X, args) ==
    [pc |-> "called", X |-> X, epsilon |-> args.epsilon, k_pow |-> args.k_pow,
     with_rectangles |-> args.with_rectangles,
     n_threshold_extreme |-> args.n_threshold_extreme,
     pruning_faces_coef |-> args.pruning_faces_coef,
     k |-> 0, threshold_extreme |-> 0, i |-> 1, mu |-> EmptyDict,
     arg |-> EmptyDict, err |-> "none"]

\* k, threshold_extreme and the empty mu; np.power(None, k_pow) raises
TrainEnter ==
    /\ train.pc = "called"
    /\ train' = IF IsNone(train.n_threshold_extreme)
                THEN [train EXCEPT !.pc = "raised", !.err = "TypeError"]
                ELSE LET k == Power(Val(train.n_threshold_extreme), train.k_pow)
                     IN  [train EXCEPT !.pc = "loop", !.k = k,
                                       !.threshold_extreme = Div(Real(Val(train.n_threshold_extreme)), k)]
    /\ UNCHANGED << damex, forest, pcall, lofvars >>

\* one iteration of the accumulation loop
TrainRow ==
    /\ train.pc = "loop"
    /\ train.i <= Len(train.X)
    /\ train' = [train EXCEPT
         !.mu = TrainLoop(<< train.X[train.i] >>, 1, train.mu, train.epsilon, train.with_rectangles, train.threshold_extreme, train.k),
         !.i = @ + 1]
    /\ UNCHANGED << damex, forest, pcall, lofvars >>

\* mu = threshold_faces(mu, pruning_faces_coef): the activation after it,
\* at pc = to; arg keeps the mapping the pass was given
Pruned(to) ==
    LET r == threshold_faces(train.mu, train.pruning_faces_coef)
    IN  IF r.err # "none"
        THEN [train EXCEPT !.pc = "raised", !.err = r.err]
        ELSE [train EXCEPT !.pc = to, !.mu = r.mu, !.arg = train.mu]

\* the first pass, once the loop is over
TrainPass1 ==
    /\ train.pc = "loop"
    /\ train.i > Len(train.X)
    /\ train' = Pruned("pass2")
    /\ UNCHANGED << damex, forest, pcall, lofvars >>

\* the second pass, and damex_train returns mu, threshold_extreme
TrainPass2 ==
    /\ train.pc = "pass2"
    /\ train' = Pruned("returned")
    /\ UNCHANGED << damex, forest, pcall, lofvars >>

\* the training rows: c of each kind, Big and Small being on either side
\* of epsilon * norm
Big == 3 * Scale
Small == Scale
KindRow(kind) ==
    [j \in 1..NFeatures |->
       CASE kind = 1 -> Big
         [] kind = 2 -> IF j = 1 THEN Big ELSE Small
         [] kind = 3 -> IF j = NFeatures THEN Big ELSE Small
         [] kind = 4 -> 0 - Big
         [] OTHER    -> Small]

RECURSIVE Repeat(_, _)
Repeat(row, c) == IF c = 0 THEN << >> ELSE << row >> \o Repeat(row, c - 1)

RECURSIVE RowsOfKinds(_, _)
RowsOfKinds(counts, kind) ==
    IF kind > Len(counts) THEN << >>
    ELSE Repeat(KindRow(kind), counts[kind]) \o RowsOfKinds(counts, kind + 1)

\* how many rows of each kind: the extreme kinds 1..4 in non-increasing
\* numbers, up to 2 rows of the non-extreme kind 5
KindCounts ==
    { c \in [1..5 -> 0..MaxCount] :
        /\ c[1] >= c[2] /\ c[2] >= c[3] /\ c[3] >= c[4]
        /\ c[5] <= 2 }

TrainArgs ==
    [epsilon : {Scale \div 2, Scale}, k_pow : {1}, with_rectangles : BOOLEAN,
     n_threshold_extreme : {None, Some(1), Some(4)},
     pruning_faces_coef : {0, (9 * Scale) \div 10, Scale}]

InitTrain ==
    /\ \E c \in KindCounts : \E args \in TrainArgs :
         train = TrainCall(RowsOfKinds(c, 1), args)
    /\ self = << >>
    /\ ctor = << >>
    /\ call = NoCall
    /\ fits = << >>
    /\ input = NoInput
    /\ returned = EmptyDict
    /\ forest = NoForest
    /\ pcall = NoPredict
    /\ lof = << >>
    /\ lofctor = 0
    /\ lofcall = NoLofCall

NextTrain ==
    \/ TrainEnter
    \/ TrainRow
    \/ TrainPass1
    \/ TrainPass2

SpecTrain == InitTrain /\ [][NextTrain]_vars

\* the accumulation loop is over, no pruning pass has run
LoopDone == train.pc = "loop" /\ train.i > Len(train.X)

\* the training rows with norm > threshold_extreme, and the face of a row
ExtremeRows == {j \in 1..Len(train.X) : MaxAbs(train.X[j]) > train.threshold_extreme}
RowFace(x) == nombre(Alpha(x, train.epsilon, train.with_rectangles, train.threshold_extreme), Len(x))

Reverse(q) == [j \in 1..Len(q) |-> q[Len(q) + 1 - j]]

\* C14: after the accumulation loop and before pruning, the keys of mu
\* are the faces of the training rows with norm > threshold_extreme, each
\* with mass 1/k per such row having that face (rows with norm <=
\* threshold_extreme give no face mass), and the rows taken in the
\* opposite order accumulate the same mu.
C14_MassCountsExtremeRows ==
    LoopDone =>
      /\ DOMAIN train.mu = {RowFace(train.X[j]) : j \in ExtremeRows}
      /\ \A f \in DOMAIN train.mu :
           train.mu[f] = Cardinality({j \in ExtremeRows : RowFace(train.X[j]) = f}) * Div(Real(1), train.k)
      /\ train.mu = TrainLoop(Reverse(train.X), 1, EmptyDict, train.epsilon, train.with_rectangles, train.threshold_extreme, train.k)

\* a loop over rows of several faces, one face met more than once, and a
\* row that is not extreme, with k = 2
C14_Witness ==
    /\ LoopDone
    /\ train.k = Real(2)
    /\ Cardinality(DOMAIN train.mu) >= 3
    /\ \E f \in DOMAIN train.mu : train.mu[f] >= 2 * Div(Real(1), train.k)
    /\ Cardinality(ExtremeRows) < Len(train.X)

\* a pruning pass has returned: train.arg is the mapping it was given,
\* train.mu the mapping it returned
PassDone == train.pc \in {"pass2", "returned"}

\* the mean of the masses of a non-empty mapping
MeanMass(mu) == SumValues(mu, DOMAIN mu) \div Cardinality(DOMAIN mu)

\* C15: a pass of threshold_faces(mu, t) on a non-empty mu returns the
\* faces of mu whose mass is >= t * mean(masses of mu), each with the
\* mass it had; with t = 0 it returns every face, unchanged.
C15_PassKeepsFacesAtOrAboveMean ==
    PassDone =>
      LET t == train.pruning_faces_coef
      IN  /\ DOMAIN train.mu = {f \in DOMAIN train.arg : train.arg[f] >= Mul(t, MeanMass(train.arg))}
          /\ \A f \in DOMAIN train.mu : train.mu[f] = train.arg[f]
          /\ t = 0 => train.mu = train.arg

\* a pass with t = 0.9 that removed a face and kept two
C15_Witness ==
    /\ PassDone
    /\ train.pruning_faces_coef = (9 * Scale) \div 10
    /\ Cardinality(DOMAIN train.mu) >= 2
    /\ Cardinality(DOMAIN train.mu) < Cardinality(DOMAIN train.arg)

\* a pass with t = 0 over three faces of different masses
C15_WitnessZero ==
    /\ PassDone
    /\ train.pruning_faces_coef = 0
    /\ Cardinality(DOMAIN train.arg) >= 3
    /\ \E f, g \in DOMAIN train.arg : train.arg[f] < train.arg[g]

\* damex_train has returned mu
Returned == train.pc = "returned"

\* C16 as stated: the mu damex_train returns is a fixed point of pruning:
\* a third threshold_faces pass with the same coefficient removes no
\* face, every key having mass >= pruning_faces_coef * mean(masses of
\* the returned mu).
C16_ReturnedMuIsFixedPoint ==
    (Returned /\ train.pruning_faces_coef < Scale) =>
      /\ threshold_faces(train.mu, train.pruning_faces_coef).mu = train.mu
      /\ \A f \in DOMAIN train.mu :
           train.mu[f] >= Mul(train.pruning_faces_coef, MeanMass(train.mu))

\* C16 amended: every key of the mu damex_train returns has mass >=
\* pruning_faces_coef * mean(masses of the mu the second pass was given),
\* and a third pass removes no face if the second pass removed none.
C16_ReturnedMuAboveSecondPassMean ==
    (Returned /\ train.pruning_faces_coef < Scale) =>
      /\ \A f \in DOMAIN train.mu :
           train.mu[f] >= Mul(train.pruning_faces_coef, MeanMass(train.arg))
      /\ train.mu = train.arg =>
           threshold_faces(train.mu, train.pruning_faces_coef).mu = train.mu

\* damex_train has returned with a coefficient in (0, 1), its second pass
\* having removed a face and kept two
C16_Witness ==
    /\ Returned
    /\ train.pruning_faces_coef > 0 /\ train.pruning_faces_coef < Scale
    /\ Cardinality(DOMAIN train.mu) >= 2
    /\ Cardinality(DOMAIN train.mu) < Cardinality(DOMAIN train.arg)

\* damex_train has returned with a coefficient in (0, 1), its second pass
\* having removed nothing from the two faces or more the first pass kept
C16_WitnessStable ==
    /\ Returned
    /\ train.pruning_faces_coef > 0 /\ train.pruning_faces_coef < Scale
    /\ train.mu = train.arg
    /\ Cardinality(DOMAIN train.mu) >= 2
    /\ Cardinality(ExtremeRows) > Cardinality({j \in ExtremeRows : RowFace(train.X[j]) \in DOMAIN train.mu})

\* the faces of largest mass of a mapping
MaxMassFaces(mu) == {f \in DOMAIN mu : \A g \in DOMAIN mu : mu[g] <= mu[f]}

\* C17: with pruning_faces_coef in [0,1], damex_train raises the division
\* by zero of threshold_faces exactly if no training row has norm >
\* threshold_extreme, and it raises it in the first pass, on the empty mu
\* the loop left; otherwise each pass keeps the faces of largest mass, the
\* second pass is given a non-empty mu and damex_train returns a
\* non-empty mu.  The masses and their mean are exact here: the formula
\* says nothing of a mean that floating-point addition rounds above the
\* largest mass.
C17_DivisionByZeroIffNoExtremeRow ==
    /\ (train.pc = "raised" /\ train.err = "ZeroDivisionError") =>
         /\ ExtremeRows = {}
         /\ train.mu = EmptyDict /\ train.arg = EmptyDict
    /\ PassDone =>
         /\ ExtremeRows # {}
         /\ train.arg # EmptyDict /\ train.mu # EmptyDict
         /\ MaxMassFaces(train.arg) \subseteq DOMAIN train.mu
    /\ (LoopDone /\ ExtremeRows = {}) => train.mu = EmptyDict

\* damex_train has raised ZeroDivisionError on two rows or more
C17_Witness ==
    /\ train.pc = "raised"
    /\ train.err = "ZeroDivisionError"
    /\ Len(train.X) >= 2

\* damex_train has returned with pruning_faces_coef = 1, a pass having
\* removed a face
C17_WitnessReturned ==
    /\ Returned
    /\ train.pruning_faces_coef = Scale
    /\ \E j \in ExtremeRows : RowFace(train.X[j]) \notin DOMAIN train.mu

\* ------------------------------------------------- the IsolationForest
\* IsolationForest.__init__
ConstructForest(n_estimators, max_samples) ==
    [n_estimators |-> n_estimators, max_samples |-> max_samples]

\* max_samples: a ratio in (0, 1] or an integer
MaxSamplesChoices == {Scale \div 2} \cup {Real(n) : n \in 1..MaxSamplesInt}

\* BaseBagging.fit: one fitted tree per estimator and the feature count of
\* the training matrix.  A fitted tree is held as the depths it gives the
\* samples of the matrix later passed to predict.
BaggingFit(obj, n_features, trees) ==
    SetAttr(SetAttr(obj, "estimators_", trees), "n_features_", n_features)

\* IsolationForest.fit
FitForest ==
    /\ ~HasAttr(forest, "estimators_")
    /\ \E nf \in 1..MaxFeatures : \E trees \in [1..forest.n_estimators -> DepthVecs] :
         forest' = BaggingFit(forest, nf, trees)
    /\ UNCHANGED << damex, pcall, lofvars, train >>

\* the matrices a caller may pass to predict
Inputs == [ndim : {2, 3}, n_samples : {NSamples}, n_features : 1..MaxFeatures]

\* IsolationForest.predict up to the dispatch of the per-tree tasks
PredictStart(X) ==
    /\ HasAttr(forest, "estimators_")
    /\ pcall.pc \in {"idle", "done", "raised"}
    /\ pcall' = IF check_array(X) # "none"
                THEN [pc |-> "raised", X |-> X, results |-> << >>, scores |-> << >>,
                      err |-> check_array(X)]
                ELSE [pc |-> "running", X |-> X,
                      results |-> [t \in 1..Len(forest.estimators_) |-> Pending],
                      scores |-> << >>, err |-> "none"]
    /\ UNCHANGED << damex, forest, lofvars, train >>

\* one task of the parallel loop returns: _parallel_helper(tree.tree_,
\* 'apply_depth', X); its result goes to the slot of its estimator
TreeTask(t) ==
    /\ pcall.pc = "running"
    /\ pcall.results[t] = Pending
    /\ \E o \in apply_depth(forest.estimators_[t], pcall.X, forest.n_features_) :
         pcall' = IF o.err = "none"
                  THEN [pcall EXCEPT !.results[t] = o.depths]
                  ELSE [pcall EXCEPT !.pc = "raised", !.err = o.err]
    /\ UNCHANGED << damex, forest, lofvars, train >>

\* the parallel loop has returned: Reduce, and predict returns the scores
ReduceStep ==
    /\ pcall.pc = "running"
    /\ AllReturned(pcall.results)
    /\ pcall' = [pcall EXCEPT !.pc = "done",
                              !.scores = Reduce(Collected(pcall.results), forest.max_samples)]
    /\ UNCHANGED << damex, forest, lofvars, train >>

InitForest ==
    /\ \E n \in 1..MaxEstimators : \E m \in MaxSamplesChoices :
         forest = ConstructForest(n, m)
    /\ pcall = NoPredict
    /\ lof = << >>
    /\ lofctor = 0
    /\ lofcall = NoLofCall
    /\ train = NoTrain
    /\ self = << >>
    /\ ctor = << >>
    /\ call = NoCall
    /\ fits = << >>
    /\ input = NoInput
    /\ returned = EmptyDict

\* the matrices that have the feature count seen at fit
MatchingInputs ==
    IF HasAttr(forest, "n_features_")
    THEN {X \in Inputs : X.n_features = forest.n_features_}
    ELSE {}

\* predict on matrices of the fitted feature count
NextForest ==
    \/ FitForest
    \/ \E X \in MatchingInputs : PredictStart(X)
    \/ \E t \in 1..forest.n_estimators : TreeTask(t)
    \/ ReduceStep

SpecForest == InitForest /\ [][NextForest]_vars

\* predict on matrices of any feature count
NextForestAny ==
    \/ FitForest
    \/ \E X \in Inputs : PredictStart(X)
    \/ \E t \in 1..forest.n_estimators : TreeTask(t)
    \/ ReduceStep

SpecForestAny == InitForest /\ [][NextForestAny]_vars

\* C2: predict with an X whose feature count differs from the one seen at
\* fit raises an invalid-input error before any tree is applied: no
\* per-tree result is ever collected and predict never returns scores.
C2_MismatchRejected ==
    (pcall.pc # "idle" /\ pcall.X.n_features # forest.n_features_) =>
      /\ \A t \in 1..Len(pcall.results) : pcall.results[t] = Pending
      /\ pcall.pc # "done"

\* C3: every score predict returns is 2^(-meanDepth / c(max_samples)),
\* with c = 1 for max_samples <= 1 and c > 0 otherwise, and lies in (0, 1].
C3_ScoreInUnitInterval ==
    pcall.pc = "done" =>
      LET c == IF forest.max_samples <= Real(1) THEN Real(1)
               ELSE _cost(forest.max_samples)
          meanDepth == MeanAxis0(forest.estimators_)
      IN  /\ c > 0
          /\ \A k \in 1..NSamples :
               /\ meanDepth[k] >= 0
               /\ pcall.scores[k] = Pow2(0 - Div(meanDepth[k], c))
               /\ 0 < pcall.scores[k] /\ pcall.scores[k] <= Real(1)

\* a predict of a forest with an integer max_samples > 1 that returns a
\* score below 1 and a score equal to 1
C3_Witness ==
    /\ pcall.pc = "done"
    /\ forest.max_samples > Real(1)
    /\ \E k \in 1..NSamples : pcall.scores[k] < Real(1)
    /\ \E k \in 1..NSamples : pcall.scores[k] = Real(1)

\* a predict of a forest whose max_samples is a ratio
C3_WitnessRatio ==
    /\ pcall.pc = "done"
    /\ forest.max_samples < Real(1)
    /\ \E k \in 1..NSamples : pcall.scores[k] < Real(1)

\* the estimators in the order p
Permuted(estimators, p) == [t \in 1..Len(estimators) |-> estimators[p[t]]]

\* C4: the scores predict returns, whatever the order in which the
\* per-tree tasks returned, are the scores of the reduction over the
\* estimators taken in any order.
C4_ScoresOrderIndependent ==
    pcall.pc = "done" =>
      \A p \in Permutations(1..Len(forest.estimators_)) :
        pcall.scores = Reduce(Permuted(forest.estimators_, p), forest.max_samples)

\* a predict over two trees of different depths has returned
C4_Witness ==
    /\ pcall.pc = "done"
    /\ Len(forest.estimators_) >= 2
    /\ forest.estimators_[1] # forest.estimators_[2]

\* --------------------------------------------------------------- the LOF
\* training samples: pairwise distances all different
LofSamples == << 0, Real(1), Real(3), Real(7), Real(12) >>
LofTrain == { SubSeq(LofSamples, 1, n) : n \in LofRows..(LofRows + 2) }

\* the X a caller passes to predict and decision_function
LofQueries == { None, << Real(2) >>, << Real(5), Real(9) >> }

\* the n_neighbors a caller passes
LofNeighborsArgs == {None} \cup {Some(k) : k \in 1..LofNeighbors}

\* fit(X)
LofFit(X) ==
    /\ ~HasAttr(lof, "_fit_X")
    /\ lof' = LOF_fit(lof, X)
    /\ lofcall' = [op |-> "fit", X |-> X, n_neighbors |-> None, err |-> "none", ret |-> << >>]
    /\ UNCHANGED << damex, forest, pcall, lofctor, train >>

\* predict(X, n_neighbors)
LofPredict(X, n_neighbors) ==
    /\ HasAttr(lof, "_fit_X")
    /\ LET r == LOF_predict(lof, X, n_neighbors)
       IN  /\ lof' = r.self
           /\ lofcall' = [op |-> "predict", X |-> X, n_neighbors |-> n_neighbors, err |-> r.err, ret |-> r.ret]
    /\ UNCHANGED << damex, forest, pcall, lofctor, train >>

\* decision_function(X, n_neighbors)
LofDecisionFunction(X, n_neighbors) ==
    /\ HasAttr(lof, "_fit_X")
    /\ LET r == LOF_decision_function(lof, X, n_neighbors)
       IN  /\ lof' = r.self
           /\ lofcall' = [op |-> "decision_function", X |-> X, n_neighbors |-> n_neighbors, err |-> r.err, ret |-> r.ret]
    /\ UNCHANGED << damex, forest, pcall, lofctor, train >>

InitLof ==
    /\ lofctor \in 1..LofNeighbors
    /\ lof = ConstructLOF(lofctor)
    /\ lofcall = NoLofCall
    /\ train = NoTrain
    /\ forest = NoForest
    /\ pcall = NoPredict
    /\ self = << >>
    /\ ctor = << >>
    /\ call = NoCall
    /\ fits = << >>
    /\ input = NoInput
    /\ returned = EmptyDict

NextLof ==
    \/ \E X \in LofTrain : LofFit(X)
    \/ \E X \in LofQueries : \E k \in LofNeighborsArgs : LofPredict(X, k)
    \/ \E X \in LofQueries : \E k \in LofNeighborsArgs : LofDecisionFunction(X, k)

SpecLof == InitLof /\ [][NextLof]_vars

\* C12: a predict or decision_function call made without n_neighbors
\* computes the LOF with the n_neighbors passed to the constructor,
\* whatever n_neighbors earlier calls were given.
C12_DefaultIsConstructorValue ==
    (lofcall.op \in {"predict", "decision_function"} /\ IsNone(lofcall.n_neighbors))
    => LET fresh == LOF_predict(LOF_fit(ConstructLOF(lofctor), lof._fit_X), lofcall.X, None)
       IN  /\ lofcall.err = fresh.err
           /\ lofcall.ret = IF lofcall.op = "predict" THEN fresh.ret
                            ELSE [j \in 1..Len(fresh.ret) |-> 0 - fresh.ret[j]]

\* every entry of the training matrix is positive
PositiveData == \A j \in 1..Len(train.X) : \A i \in 1..NFeatures : train.X[j][i] > 0

\* the strings of n characters drawn from {'0','1'}
RECURSIVE BitStrings(_)
BitStrings(n) ==
    IF n = 0 THEN {""}
    ELSE {c \o w : c \in {"0", "1"}, w \in BitStrings(n - 1)}

\* the string of n characters '0'
RECURSIVE Zeros(_)
Zeros(n) == IF n = 0 THEN "" ELSE "0" \o Zeros(n - 1)

\* the boolean vector of a training row
RowAlpha(x) == Alpha(x, train.epsilon, train.with_rectangles, train.threshold_extreme)

C18_WitnessRectangles ==
    /\ PositiveData
    /\ train.pc = "loop"
    /\ train.with_rectangles
    /\ "1" \o Zeros(NFeatures - 1) \in DOMAIN train.mu
    /\ Cardinality(DOMAIN train.mu) >= 2

=============================================================================
